---- MODULE Spec2Model ----
(***************************************************************************)
(* A model of bookGenerator: book_generator.py (image discovery, colour   *)
(* sampling, the font fitter, the pagination planner, the story assembly  *)
(* and its rendering by the page template, the merge with the front       *)
(* matter) and app.py (the run directories of the web front end).         *)
(*                                                                         *)
(* Lengths are integers.  Horizontal lengths are in points, vertical      *)
(* lengths in half points (names ending in 2), so that the halving in     *)
(* top_space = (usable_height - h) / 2.0 stays exact.                      *)
(***************************************************************************)
EXTENDS Integers, Sequences, FiniteSets, TLC

\* ------------------------------------------------------------------ bounds
MaxPages == 2
MaxImages == 2
MaxFitSize == 3
MaxFitHeight == 2
MaxFiles == 4
MaxFront == 2
MaxBody == 2
NumRuns == 2

\* -------------------------------------------------------- program constants
Inch == 72
PageWidthPt == 621
PageHeightPt == 630
MarginPt == 72
FontSize == 20
MinFontSize == 5
TitleFontSize == 26
TitleLeading == 30
AuthorFontSize == 18
AuthorLeading == 22
FramePadding == 6
TOL == 1

None == 0 - 1

Min(a, b) == IF a <= b THEN a ELSE b

VARIABLES
    \* build_inner_book: inputs
    title, author, pages, image_paths,
    \* build_inner_book: locals
    pc, loop_i, current_page, img_index, page_to_image_index,
    story, text_colors, used_sizes,
    \* doc.build: the document template's state
    doc_page, hanging, frame_avail2, cur_wash, cur_items, postponed, pages_out

buildVars == <<title, author, pages, image_paths, pc, loop_i, current_page,
               img_index, page_to_image_index, story, text_colors, used_sizes,
               doc_page, hanging, frame_avail2, cur_wash, cur_items, postponed,
               pages_out>>

VARIABLES
    \* create_fitting_paragraph: arguments, position and result
    fit_heightAt, fit_max_height, fit_base, fit_min, fit_pc, fit_result

fitVars == <<fit_heightAt, fit_max_height, fit_base, fit_min, fit_pc, fit_result>>

VARIABLES
    \* load_image_paths: the directory as the OS lists it, position and result
    listing, img_pc, img_result

imgVars == <<listing, img_pc, img_result>>

VARIABLES
    \* merge_preface_and_book: the two source documents, position, the writer
    \* and the document written to the destination
    preface_exists, inner_exists, preface_pages, inner_pages,
    merge_pc, merge_i, writer_pages, final_doc

mergeVars == <<preface_exists, inner_exists, preface_pages, inner_pages,
               merge_pc, merge_i, writer_pages, final_doc>>

VARIABLES
    \* runs (web requests and command-line runs) over one file system
    run_kind, run_cwd, run_out, run_pc, run_made, fs_dirs, fs_files,
    \* what each run was given: its manuscript and its front-matter document
    run_ms, run_preface

runVars == <<run_kind, run_cwd, run_out, run_pc, run_made, fs_dirs, fs_files,
             run_ms, run_preface>>

vars == <<buildVars, fitVars, imgVars, mergeVars, runVars>>

\* ------------------------------------------------------------ colour sampler
\* An image file, as the samplers and the renderer see it: dec says PIL
\* opens and converts it, rd says ImageReader reads its size and the canvas
\* draws it, rgb2 is twice the per-channel mean of its 64x64 downsample.
Black == [dec |-> TRUE, rd |-> TRUE, rgb2 |-> <<0, 0, 0>>]
White == [dec |-> TRUE, rd |-> TRUE, rgb2 |-> <<510, 510, 510>>]
MidGray == [dec |-> TRUE, rd |-> TRUE, rgb2 |-> <<255, 255, 255>>]
Undecodable == [dec |-> FALSE, rd |-> TRUE, rgb2 |-> <<0, 0, 0>>]
Unreadable == [dec |-> FALSE, rd |-> FALSE, rgb2 |-> <<0, 0, 0>>]
ImageKinds == {Black, White, MidGray, Undecodable, Unreadable}

\* lum = (0.299 r + 0.587 g + 0.114 b) / 255, here times 2000 * 255.
Lum2000(img) == 299 * img.rgb2[1] + 587 * img.rgb2[2] + 114 * img.rgb2[3]

\* A comparison that also counts a luminance equal to the threshold as dark.
LumAtOrBelowThreshold(img) == 2 * Lum2000(img) <= 2000 * 255

\* lum < threshold with threshold = 0.5
LumBelowThreshold(img) == 2 * Lum2000(img) < 2000 * 255

text_color_for_image(img) ==
    IF img.dec
    THEN IF LumBelowThreshold(img) THEN "white" ELSE "black"
    ELSE "black"

\* The fill colour (twice the mean), or NoColor when the image does not decode.
NoColor == <<>>
color_from_image(img) == IF img.dec THEN img.rgb2 ELSE NoColor

\* ---------------------------------------------------------------- text fitter
\* A text is the sequence of the lengths (in characters) of its sentences;
\* the composed block joins them with "<br/><br/>", one empty line between
\* two sentences.  A character is half its font size wide.
CeilDiv(a, b) == (a + b - 1) \div b

RECURSIVE HtmlLines(_, _, _)
HtmlLines(text, size, width) ==
    IF text = <<>> THEN 0
    ELSE CeilDiv(Head(text) * size, 2 * width)
         + (IF Len(text) > 1 THEN 1 ELSE 0)
         + HtmlLines(Tail(text), size, width)

\* Paragraph.wrap: the rendered height, in half points, at a leading.
WrapHeight2(text, size, leading, width) == HtmlLines(text, size, width) * 2 * leading

\* The loop of create_fitting_paragraph; heightAt[s] is what para.wrap measures
\* at size s (leading s + 4).  A paragraph is named by the size it was built at.
\* A fitter that accepts a size only when the block is strictly lower than the
\* usable height.
RECURSIVE FitLoopStrict(_, _, _, _, _)
FitLoopStrict(heightAt, max_height, size, min_font_size, last_para) ==
    IF size >= min_font_size
    THEN IF heightAt[size] < max_height
         THEN [para |-> size, size |-> size]
         ELSE FitLoopStrict(heightAt, max_height, size - 1, min_font_size, size)
    ELSE [para |-> last_para, size |-> min_font_size]

RECURSIVE FitLoop(_, _, _, _, _)
FitLoop(heightAt, max_height, size, min_font_size, last_para) ==
    IF size >= min_font_size
    THEN IF heightAt[size] <= max_height
         THEN [para |-> size, size |-> size]
         ELSE FitLoop(heightAt, max_height, size - 1, min_font_size, size)
    ELSE [para |-> last_para, size |-> min_font_size]

create_fitting_paragraph(heightAt, max_height, base_font_size, min_font_size) ==
    FitLoop(heightAt, max_height, base_font_size, min_font_size, None)

\* ------------------------------------------------------------ page geometry
usable_width == PageWidthPt - 2 * MarginPt
usable_height2 == 2 * (PageHeightPt - 2 * MarginPt)
\* The frame keeps its default padding on every side.
FrameWidth == usable_width - 2 * FramePadding
FrameHeight2 == usable_height2 - 4 * FramePadding

\* ------------------------------------------------------------------ inputs
\* Manuscript texts: "Hello. World." (two sentences), a text that the fitter
\* accepts at the base size with a few points to spare, and a text too long
\* for the page even at the minimum size.
ShortText == <<6, 6>>
NearFitText == <<940>>
HugeText == <<20000>>
TextKinds == {ShortText, NearFitText, HugeText}
\* title and author are lengths in characters; 0 is the empty string.
TitleKinds == {0, 1}
AuthorKinds == {0, 1}

SeqsUpTo(S, lo, hi) == UNION {[1..n -> S] : n \in lo..hi}

has_title == title # 0

\* A planner that does not count the title page.
PlanFirstPageNoTitle == IF has_title THEN 1 ELSE 1

\* The output page number of the first manuscript page.
PlanFirstPage == IF has_title THEN 2 ELSE 1

\* ---------------------------------------------------------------- flowables
NoText == <<>>
Spacer(h2) ==
    [type |-> "Spacer", h2 |-> h2, what |-> "", idx |-> None, text |-> NoText,
     size |-> 0, leading |-> 0, color |-> "", skip |-> 0]
Paragraph(what, idx, text, size, leading, color) ==
    [type |-> "Paragraph", h2 |-> 0, what |-> what, idx |-> idx, text |-> text,
     size |-> size, leading |-> leading, color |-> color, skip |-> 0]
PageBreak ==
    [type |-> "PageBreak", h2 |-> 0, what |-> "", idx |-> None, text |-> NoText,
     size |-> 0, leading |-> 0, color |-> "", skip |-> 0]
FullPageImage(idx) ==
    [type |-> "FullPageImage", h2 |-> 0, what |-> "image", idx |-> idx,
     text |-> NoText, size |-> 0, leading |-> 0, color |-> "", skip |-> 0]

\* What one emitted page shows: the image whose colour washes it (None when
\* the hook painted nothing) and, in drawing order, what was drawn on it.
Item(what, idx) == [what |-> what, idx |-> idx]

\* ------------------------------------------------------- build_inner_book
BuildInit ==
    /\ title \in TitleKinds
    /\ author \in AuthorKinds
    /\ (title = 0 => author = 0)
    /\ pages \in SeqsUpTo(TextKinds, 1, MaxPages)
    /\ image_paths \in SeqsUpTo(ImageKinds, 0, MaxImages)
    /\ pc = "plan"
    /\ loop_i = 0
    /\ current_page = PlanFirstPage
    /\ img_index = 0
    /\ page_to_image_index = <<>>
    /\ story = <<>>
    /\ text_colors = <<>>
    /\ used_sizes = <<>>
    /\ doc_page = 0
    /\ hanging = TRUE
    /\ frame_avail2 = 0
    /\ cur_wash = None
    /\ cur_items = <<>>
    /\ postponed = FALSE
    /\ pages_out = <<>>

notBuildVars == <<fitVars, imgVars, mergeVars, runVars>>
docVars == <<doc_page, hanging, frame_avail2, cur_wash, cur_items, postponed, pages_out>>
inputVars == <<title, author, pages, image_paths>>

\* A planner that records one image more than there are.
PlanHasImageOffByOne(idx) == idx <= Len(image_paths)

\* The condition under which the planner records an image for a text page.
PlanHasImage(idx) == idx < Len(image_paths)

\* What the planner adds to the page counter per manuscript page.
PlanAdvance == 2

\* One iteration of the planning loop.
PlanStep ==
    /\ pc = "plan"
    /\ loop_i < Len(pages)
    /\ page_to_image_index' =
          IF PlanHasImage(img_index)
          THEN (current_page :> img_index) @@ page_to_image_index
          ELSE page_to_image_index
    /\ current_page' = current_page + PlanAdvance
    /\ img_index' = img_index + 1
    /\ loop_i' = loop_i + 1
    /\ pc' = IF loop_i + 1 = Len(pages) THEN "title" ELSE "plan"
    /\ UNCHANGED <<inputVars, story, text_colors, used_sizes, docVars>>
    /\ UNCHANGED notBuildVars

\* The title page's flowables, when there is a title.
TitleFlowables ==
    LET th2 == WrapHeight2(<<title>>, TitleFontSize, TitleLeading, usable_width)
        ah2 == WrapHeight2(<<author + 3>>, AuthorFontSize, AuthorLeading, usable_width)
        total2 == IF author # 0 THEN th2 + (2 * Inch) \div 4 + ah2 ELSE th2
        top_space2 == IF total2 < usable_height2 THEN (usable_height2 - total2) \div 2 ELSE 0
    IN  <<Spacer(top_space2),
          Paragraph("title", None, <<title>>, TitleFontSize, TitleLeading, "black")>>
        \o (IF author # 0
            THEN <<Spacer((2 * Inch) \div 4),
                   Paragraph("author", None, <<author + 3>>, AuthorFontSize,
                             AuthorLeading, "black")>>
            ELSE <<>>)
        \o <<PageBreak>>

TitleStep ==
    /\ pc = "title"
    /\ story' = IF has_title THEN TitleFlowables ELSE <<>>
    /\ img_index' = 0
    /\ loop_i' = 0
    /\ pc' = "assemble"
    /\ UNCHANGED <<inputVars, current_page, page_to_image_index, text_colors,
                   used_sizes, docVars>>
    /\ UNCHANGED notBuildVars

\* The text colour of manuscript page i (0-based), with img_index images used.
PageTextColor(idx) ==
    IF idx < Len(image_paths)
    THEN text_color_for_image(image_paths[idx + 1])
    ELSE "black"

\* One iteration of the assembly loop, for manuscript page loop_i (0-based).
AssembleStep ==
    /\ pc = "assemble"
    /\ loop_i < Len(pages)
    /\ LET page_text == pages[loop_i + 1]
           text_color == PageTextColor(img_index)
           heightAt == [s \in MinFontSize..FontSize |->
                           WrapHeight2(page_text, s, s + 4, usable_width)]
           fit == create_fitting_paragraph(heightAt, usable_height2, FontSize, MinFontSize)
           h2 == WrapHeight2(page_text, fit.size, fit.size + 4, usable_width)
           top_space2 == IF h2 < usable_height2 THEN (usable_height2 - h2) \div 2 ELSE 0
           text_part == <<Spacer(top_space2),
                          Paragraph("text", loop_i, page_text, fit.size, fit.size + 4,
                                    text_color),
                          PageBreak>>
           has_image == img_index < Len(image_paths)
       IN  /\ text_colors' = Append(text_colors, text_color)
           /\ used_sizes' = Append(used_sizes, fit.size)
           /\ IF has_image /\ ~image_paths[img_index + 1].rd
              THEN \* ImageReader raises in FullPageImage.__init__
                   /\ pc' = "failed"
                   /\ story' = story \o text_part
                   /\ UNCHANGED <<img_index, loop_i>>
              ELSE /\ story' = story \o text_part
                        \o (IF has_image
                            THEN <<FullPageImage(img_index), PageBreak>>
                            ELSE <<PageBreak>>)
                   /\ img_index' = IF has_image THEN img_index + 1 ELSE img_index
                   /\ loop_i' = loop_i + 1
                   /\ pc' = IF loop_i + 1 = Len(pages) THEN "build" ELSE "assemble"
    /\ UNCHANGED <<inputVars, current_page, page_to_image_index, docVars>>
    /\ UNCHANGED notBuildVars

\* ------------------------------------------------ doc.build and the page hook
\* on_page: the image whose colour is painted under page page_num, or None.
on_page(page_num) ==
    IF page_num \notin DOMAIN page_to_image_index
    THEN None
    ELSE LET img_idx == page_to_image_index[page_num]
         IN  IF 0 <= img_idx /\ img_idx < Len(image_paths)
             THEN IF color_from_image(image_paths[img_idx + 1]) = NoColor
                  THEN None
                  ELSE img_idx
             ELSE None

\* The page in progress once a pending page begin has been handled: the page
\* counter advances, the hook runs and the frame is empty again.
CurPageNum == IF hanging THEN doc_page + 1 ELSE doc_page
CurWash == IF hanging THEN on_page(doc_page + 1) ELSE cur_wash
CurItems == IF hanging THEN <<>> ELSE cur_items
CurAvail2 == IF hanging THEN FrameHeight2 ELSE frame_avail2

EmittedPage(wash, items) == [wash |-> wash, items |-> items]

\* handle_pageEnd: the page in progress is shown and a page begin is pending.
PageEnd(rest) ==
    /\ pages_out' = Append(pages_out, EmittedPage(CurWash, CurItems))
    /\ doc_page' = CurPageNum
    /\ hanging' = TRUE
    /\ frame_avail2' = 0
    /\ cur_wash' = None
    /\ cur_items' = <<>>
    /\ story' = rest

\* The flowable was drawn, h2 high, on the page in progress.
Drawn(item, h2, rest) ==
    /\ doc_page' = CurPageNum
    /\ hanging' = FALSE
    /\ cur_wash' = CurWash
    /\ cur_items' = Append(CurItems, item)
    /\ frame_avail2' = CurAvail2 - h2
    /\ pages_out' = pages_out
    /\ story' = rest

\* handle_flowable on the head of the story.
BuildStep ==
    /\ pc = "build"
    /\ story # <<>>
    /\ LET f == Head(story)
           rest == Tail(story)
       IN  CASE f.type = "PageBreak" ->
                  /\ PageEnd(rest)
                  /\ UNCHANGED <<pc, postponed>>
             [] f.type = "Spacer" ->
                  IF f.h2 <= CurAvail2
                  THEN /\ Drawn(Item("space", f.h2), f.h2, rest)
                       /\ UNCHANGED <<pc, postponed>>
                  ELSE /\ PageEnd(story)
                       /\ UNCHANGED <<pc, postponed>>
             [] f.type = "FullPageImage" ->
                  /\ Drawn(Item("image", f.idx), 0, rest)
                  /\ UNCHANGED <<pc, postponed>>
             [] f.type = "Paragraph" ->
                  LET lines == HtmlLines(f.text, f.size, FrameWidth) - f.skip
                      fit == CurAvail2 \div (2 * f.leading)
                  IN  IF lines * 2 * f.leading <= CurAvail2
                      THEN \* Frame.add draws the whole paragraph
                           /\ Drawn(Item(f.what, f.idx), lines * 2 * f.leading, rest)
                           /\ postponed' = FALSE
                           /\ pc' = pc
                      ELSE IF fit > 1
                      THEN \* Paragraph.split: the lines that fit are drawn here
                           /\ Drawn(Item(f.what, f.idx), fit * 2 * f.leading,
                                    <<[f EXCEPT !.skip = f.skip + fit]>> \o rest)
                           /\ postponed' = FALSE
                           /\ pc' = pc
                      ELSE IF postponed
                      THEN \* LayoutError: too large on an empty frame
                           /\ pc' = "failed"
                           /\ UNCHANGED <<docVars, story>>
                      ELSE \* put back, and the frame (so the page) ends
                           /\ PageEnd(story)
                           /\ postponed' = TRUE
                           /\ pc' = pc
    /\ UNCHANGED <<inputVars, loop_i, current_page, img_index, page_to_image_index,
                   text_colors, used_sizes>>
    /\ UNCHANGED notBuildVars

\* _endBuild: a pending page begin is dropped, else the last page is shown.
EndBuild ==
    /\ pc = "build"
    /\ story = <<>>
    /\ pc' = "done"
    /\ IF hanging
       THEN UNCHANGED <<docVars, story>>
       ELSE /\ PageEnd(story)
            /\ UNCHANGED postponed
    /\ UNCHANGED <<inputVars, loop_i, current_page, img_index, page_to_image_index,
                   text_colors, used_sizes>>
    /\ UNCHANGED notBuildVars

BuildIdle ==
    /\ title = 0 /\ author = 0 /\ pages = <<>> /\ image_paths = <<>>
    /\ pc = "idle" /\ loop_i = 0 /\ current_page = 0 /\ img_index = 0
    /\ page_to_image_index = <<>> /\ story = <<>> /\ text_colors = <<>>
    /\ used_sizes = <<>> /\ doc_page = 0 /\ hanging = FALSE /\ frame_avail2 = 0
    /\ cur_wash = None /\ cur_items = <<>> /\ postponed = FALSE /\ pages_out = <<>>

\* ------------------------------------------------------------ claims: build
NumPages == Len(pages)
NumImages == Len(image_paths)
TitlePages == IF has_title THEN 1 ELSE 0

\* What emitted page q (1-based) shows.
ShowsItem(q, what, idx) ==
    \E n \in 1..Len(pages_out[q].items) : pages_out[q].items[n] = Item(what, idx)
ShowsKind(q, what) ==
    \E n \in 1..Len(pages_out[q].items) : pages_out[q].items[n].what = what
IsBlankPage(q) == pages_out[q].items = <<>>
IsImagePage(q, idx) == pages_out[q].items = <<Item("image", idx)>>
IsTextPage(q, i) == ShowsItem(q, "text", i) /\ ~ShowsKind(q, "image")
\* The emitted pages that show text of manuscript page i (0-based).
PagesOfText(i) == {q \in 1..Len(pages_out) : ShowsItem(q, "text", i)}
SetMax(S) == CHOOSE x \in S : \A y \in S : y <= x

\* C1: the emitted body has (1 if title else 0) + 2N pages: the optional title
\* page, then per manuscript page i its text page followed by one image or
\* blank page.
C1_BodyPageCount ==
    pc = "done" =>
        /\ Len(pages_out) = TitlePages + 2 * NumPages
        /\ has_title => ShowsKind(1, "title")
        /\ \A i \in 0..(NumPages - 1) :
              /\ IsTextPage(TitlePages + 2 * i + 1, i)
              /\ \/ IsBlankPage(TitlePages + 2 * i + 2)
                 \/ \E j \in 0..(NumImages - 1) : IsImagePage(TitlePages + 2 * i + 2, j)

C3_PlanAgreesWithPages ==
    pc = "done" =>
        LET s == IF has_title THEN 2 ELSE 1
        IN  /\ \A i \in 0..(NumPages - 1) : PagesOfText(i) = {s + 2 * i}
            /\ \A q \in 1..(s + 2 * NumPages) :
                  q \in DOMAIN page_to_image_index
                      <=> \E i \in 0..(Min(NumImages, NumPages) - 1) : q = s + 2 * i
            /\ \A i \in 0..(Min(NumImages, NumPages) - 1) :
                  /\ page_to_image_index[s + 2 * i] = i
                  /\ s + 2 * i + 1 <= Len(pages_out)
                  /\ IsImagePage(s + 2 * i + 1, i)
            /\ \A q \in 1..Len(pages_out) :
                  pages_out[q].wash # None =>
                      /\ pages_out[q].wash < NumImages
                      /\ IsTextPage(q, pages_out[q].wash)

\* The end-to-end scenario: title, author, one short text page, one image
\* that decodes, default configuration.
C4_Scenario ==
    /\ title = 1
    /\ author = 1
    /\ pages = <<ShortText>>
    /\ NumImages = 1
    /\ image_paths[1].dec
    /\ image_paths[1].rd

\* C4 as stated: a 4-page body, page 1 the title page, page 3 washed, page 4
\* the full-bleed image.
C4_FourPageBody ==
    (C4_Scenario /\ pc = "done") =>
        /\ Len(pages_out) = 4
        /\ ShowsKind(1, "title")
        /\ pages_out[3].wash = 0
        /\ IsImagePage(4, 0)

\* C4 amended: a 3-page body (1 + 2*1): page 1 the title/author page without
\* wash, page 2 the text page washed with the image's colour, page 3 the
\* full-bleed image.
C4_ThreePageBody ==
    (C4_Scenario /\ pc = "done") =>
        /\ Len(pages_out) = 3
        /\ ShowsKind(1, "title") /\ ShowsKind(1, "author")
        /\ pages_out[1].wash = None
        /\ pages_out[2].wash = 0 /\ IsTextPage(2, 0)
        /\ IsImagePage(3, 0) /\ pages_out[3].wash = None

C4_Witness == C4_Scenario /\ pc = "done" /\ Len(pages_out) = 3

\* C9: the text colour of a manuscript page is white exactly when the page
\* has a paired image that decodes with luminance strictly below 0.5, black
\* otherwise; a decode failure is not raised (the run goes on) and the wash
\* of that page is skipped.
C9_TextColour ==
    /\ \A j \in 1..Len(text_colors) :
          /\ text_colors[j] \in {"white", "black"}
          /\ text_colors[j] = "white" <=>
                /\ j <= NumImages
                /\ image_paths[j].dec
                /\ 2 * (299 * image_paths[j].rgb2[1] + 587 * image_paths[j].rgb2[2]
                        + 114 * image_paths[j].rgb2[3]) < 2 * 1000 * 255
    /\ (\A j \in 1..NumImages : image_paths[j].rd) => pc # "failed"
    /\ \A q \in 1..Len(pages_out) :
          pages_out[q].wash # None => image_paths[pages_out[q].wash + 1].dec

\* White text over a dark image, black text over the mid gray one and over
\* one that does not decode, in one finished run.
C9_Witness ==
    /\ pc = "done"
    /\ \E j \in 1..Len(text_colors) : text_colors[j] = "white"
    /\ \E j \in 1..Min(Len(text_colors), NumImages) :
          image_paths[j] \in {MidGray, Undecodable} /\ text_colors[j] = "black"

\* ------------------------------------------- create_fitting_paragraph alone
FitSizes == 1..MaxFitSize

FitInit ==
    /\ fit_heightAt \in [FitSizes -> 0..MaxFitHeight]
    /\ fit_max_height \in 0..MaxFitHeight
    /\ fit_base \in FitSizes
    /\ fit_min \in FitSizes
    /\ fit_pc = "call"
    /\ fit_result = [para |-> None, size |-> None]

FitIdle ==
    /\ fit_heightAt = <<>> /\ fit_max_height = 0 /\ fit_base = 0 /\ fit_min = 0
    /\ fit_pc = "idle" /\ fit_result = [para |-> None, size |-> None]

FitCall ==
    /\ fit_pc = "call"
    /\ fit_result' = create_fitting_paragraph(fit_heightAt, fit_max_height,
                                              fit_base, fit_min)
    /\ fit_pc' = "returned"
    /\ UNCHANGED <<fit_heightAt, fit_max_height, fit_base, fit_min>>
    /\ UNCHANGED <<buildVars, imgVars, mergeVars, runVars>>

\* The sizes of the range whose rendered height fits.
FittingSizes == {s \in fit_min..fit_base : fit_heightAt[s] <= fit_max_height}

FitGuarantee ==
    /\ fit_result.para # None
    /\ fit_result.para = fit_result.size
    /\ fit_min <= fit_result.size /\ fit_result.size <= fit_base
    /\ FittingSizes # {} =>
          /\ fit_result.size \in FittingSizes
          /\ \A s \in FittingSizes : s <= fit_result.size
    /\ FittingSizes = {} => fit_result.size = fit_min
    /\ fit_heightAt[fit_base] <= fit_max_height => fit_result.size = fit_base

File(stem, ext) == [stem |-> stem, ext |-> ext]
Digits == {"0", "1", "2", "3", "7"}
DigitValue(ch) ==
    CASE ch = "0" -> 0 [] ch = "1" -> 1 [] ch = "2" -> 2 [] ch = "3" -> 3 [] ch = "7" -> 7
\* str.lower() on one character.
LowerChar(ch) ==
    CASE ch = "A" -> "a" [] ch = "G" -> "g" [] ch = "I" -> "i" [] ch = "M" -> "m"
      [] OTHER -> ch
\* The code point of a character, which orders strings.
CodePoint(ch) ==
    CASE ch = "0" -> 48 [] ch = "1" -> 49 [] ch = "2" -> 50 [] ch = "3" -> 51
      [] ch = "7" -> 55
      [] ch = "A" -> 65 [] ch = "G" -> 71 [] ch = "I" -> 73 [] ch = "M" -> 77
      [] ch = "a" -> 97 [] ch = "b" -> 98 [] ch = "g" -> 103 [] ch = "i" -> 105
      [] ch = "m" -> 109 [] ch = "x" -> 120

LowerName(stem) == [n \in 1..Len(stem) |-> LowerChar(stem[n])]

RECURSIVE StrLess(_, _)
StrLess(a, b) ==
    IF b = <<>> THEN FALSE
    ELSE IF a = <<>> THEN TRUE
    ELSE IF CodePoint(Head(a)) # CodePoint(Head(b))
         THEN CodePoint(Head(a)) < CodePoint(Head(b))
         ELSE StrLess(Tail(a), Tail(b))

HasDigit(stem) == \E n \in 1..Len(stem) : stem[n] \in Digits
\* re.search(r'\d+', name): the leftmost digit run, as long as it goes.
RunStart(stem) == CHOOSE n \in 1..Len(stem) :
    stem[n] \in Digits /\ \A k \in 1..(n - 1) : stem[k] \notin Digits
RunEnd(stem) == CHOOSE n \in RunStart(stem)..Len(stem) :
    /\ \A k \in RunStart(stem)..n : stem[k] \in Digits
    /\ (n = Len(stem) \/ stem[n + 1] \notin Digits)
RECURSIVE IntOf(_, _, _)
IntOf(stem, from, to) ==
    IF to < from THEN 0
    ELSE 10 * IntOf(stem, from, to - 1) + DigitValue(stem[to])
FirstNumber(stem) == IntOf(stem, RunStart(stem), RunEnd(stem))

\* A key that files a name without digits under the number 0.
numeric_key_zero(f) ==
    IF HasDigit(f.stem)
    THEN [inf |-> FALSE, num |-> FirstNumber(f.stem), low |-> LowerName(f.stem)]
    ELSE [inf |-> FALSE, num |-> 0, low |-> LowerName(f.stem)]

\* numeric_key: (int of the first digit run, or infinity; lower-cased name)
numeric_key(f) ==
    IF HasDigit(f.stem)
    THEN [inf |-> FALSE, num |-> FirstNumber(f.stem), low |-> LowerName(f.stem)]
    ELSE [inf |-> TRUE, num |-> 0, low |-> LowerName(f.stem)]

\* Python's order on the key tuples.
KeyLess(a, b) ==
    LET numLess == (~a.inf /\ b.inf) \/ (~a.inf /\ ~b.inf /\ a.num < b.num)
        numEq == (a.inf /\ b.inf) \/ (~a.inf /\ ~b.inf /\ a.num = b.num)
    IN  numLess \/ (numEq /\ StrLess(a.low, b.low))

\* sorted(paths, key=numeric_key): stable.
RECURSIVE InsertByKey(_, _)
InsertByKey(sorted, f) ==
    IF sorted = <<>> THEN <<f>>
    ELSE IF KeyLess(numeric_key(f), numeric_key(sorted[Len(sorted)]))
         THEN Append(InsertByKey(SubSeq(sorted, 1, Len(sorted) - 1), f),
                     sorted[Len(sorted)])
         ELSE Append(sorted, f)
RECURSIVE SortedByKey(_)
SortedByKey(paths) ==
    IF paths = <<>> THEN <<>>
    ELSE InsertByKey(SortedByKey(SubSeq(paths, 1, Len(paths) - 1)), paths[Len(paths)])

\* glob(pattern): the listing's entries whose extension is the pattern's, in
\* listing order (the match is case-sensitive).
RECURSIVE Glob(_, _)
Glob(entries, ext) ==
    IF entries = <<>> THEN <<>>
    ELSE (IF Head(entries).ext = ext THEN <<Head(entries)>> ELSE <<>>)
         \o Glob(Tail(entries), ext)
exts == <<"png", "jpg", "jpeg", "PNG", "JPG", "JPEG">>
RECURSIVE GlobAll(_, _)
GlobAll(entries, n) ==
    IF n = 0 THEN <<>> ELSE GlobAll(entries, n - 1) \o Glob(entries, exts[n])

load_image_paths(entries) == SortedByKey(GlobAll(entries, Len(exts)))

FilePool ==
    { File(<<"i", "m", "g", "2">>, "png"),
      File(<<"i", "m", "g", "1", "0">>, "png"),
      File(<<"i", "m", "g", "A">>, "png"),
      File(<<"i", "m", "g", "1">>, "png"),
      File(<<"I", "M", "G", "1">>, "JPG"),
      File(<<"a", "7", "x", "3">>, "jpeg"),
      File(<<"b">>, "PNG"),
      File(<<"x", "0", "0", "7">>, "Png"),
      File(<<"b", "2">>, "txt") }

IsInjective(seq) == \A m, n \in 1..Len(seq) : seq[m] = seq[n] => m = n

ImgInit ==
    /\ listing \in {l \in SeqsUpTo(FilePool, 0, MaxFiles) : IsInjective(l)}
    /\ img_pc = "call"
    /\ img_result = <<>>

ImgIdle == listing = <<>> /\ img_pc = "idle" /\ img_result = <<>>

LoadImages ==
    /\ img_pc = "call"
    /\ img_result' = load_image_paths(listing)
    /\ img_pc' = "returned"
    /\ UNCHANGED listing
    /\ UNCHANGED <<buildVars, fitVars, mergeVars, runVars>>

Occurrences(seq, x) == Cardinality({n \in 1..Len(seq) : seq[n] = x})
IsImageName(f) == \E n \in 1..Len(exts) : f.ext = exts[n]

\* a is not after b: numbered before unnumbered, numbers ascending, equal
\* numbers (or no numbers) by lower-cased name.
InKeyOrder(a, b) ==
    \/ HasDigit(a.stem) /\ ~HasDigit(b.stem)
    \/ /\ HasDigit(a.stem) /\ HasDigit(b.stem)
       /\ \/ FirstNumber(a.stem) < FirstNumber(b.stem)
          \/ /\ FirstNumber(a.stem) = FirstNumber(b.stem)
             /\ ~StrLess(LowerName(b.stem), LowerName(a.stem))
    \/ /\ ~HasDigit(a.stem) /\ ~HasDigit(b.stem)
       /\ ~StrLess(LowerName(b.stem), LowerName(a.stem))

\* C6: load_image_paths returns every discovered image exactly once, in
\* ascending key order: numeric order of the first digit run, equal numbers by
\* lower-cased name, names without digits after all numbered ones.
C6_ImageOrder ==
    img_pc = "returned" =>
        /\ \A f \in FilePool :
              Occurrences(img_result, f)
                  = IF IsImageName(f) /\ Occurrences(listing, f) = 1 THEN 1 ELSE 0
        /\ \A m, n \in 1..Len(img_result) :
              m < n => InKeyOrder(img_result[m], img_result[n])

\* img2, img10, imgA, img1 resolve to img1, img2, img10, imgA.
C6_Witness ==
    /\ img_pc = "returned"
    /\ listing = << File(<<"i", "m", "g", "2">>, "png"),
                    File(<<"i", "m", "g", "1", "0">>, "png"),
                    File(<<"i", "m", "g", "A">>, "png"),
                    File(<<"i", "m", "g", "1">>, "png") >>
    /\ img_result = << File(<<"i", "m", "g", "1">>, "png"),
                       File(<<"i", "m", "g", "2">>, "png"),
                       File(<<"i", "m", "g", "1", "0">>, "png"),
                       File(<<"i", "m", "g", "A">>, "png") >>

\* -------------------------------------------------- merge_preface_and_book
TARGET_W == PageWidthPt
TARGET_H == PageHeightPt

\* A box is <<llx, lly, urx, ury>>; NoBox is a box the page does not state.
NoBox == <<>>
Rect(w, h) == <<0, 0, w, h>>
BoxWidth(box) == box[3] - box[1]
BoxHeight(box) == box[4] - box[2]
\* A rational is <<numerator, denominator>> with a positive denominator.
RatEq(a, b) == a[1] * b[2] = b[1] * a[2]
Identity == [s |-> <<1, 1>>, dx |-> <<0, 1>>, dy |-> <<0, 1>>]

\* A page: where it comes from, its five boxes, whether add_transformation
\* was applied to its content and, if so, the matrix (s 0 0 s dx dy).
Page(id, media, crop, trim, bleed, art) ==
    [id |-> id, mediabox |-> media, cropbox |-> crop, trimbox |-> trim,
     bleedbox |-> bleed, artbox |-> art, transformed |-> FALSE, ctm |-> Identity]

BoxNames == {"mediabox", "cropbox", "trimbox", "bleedbox", "artbox"}
\* The page's box accessors: a box the page does not state falls back to the
\* crop box, then to the media box.
GetBox(page, name) ==
    LET own == CASE name = "mediabox" -> page.mediabox
                 [] name = "cropbox" -> page.cropbox
                 [] name = "trimbox" -> page.trimbox
                 [] name = "bleedbox" -> page.bleedbox
                 [] name = "artbox" -> page.artbox
    IN  IF own # NoBox THEN own
        ELSE IF name # "cropbox" /\ page.cropbox # NoBox THEN page.cropbox
        ELSE page.mediabox

\* Stamping that forgets the trim, bleed and art boxes.
SetMediaAndCropOnly(page, width, height) ==
    [page EXCEPT !.mediabox = Rect(width, height), !.cropbox = Rect(width, height)]

\* _set_all_boxes: every box the accessor yields gets lower_left (0, 0) and
\* upper_right (width, height).
_set_all_boxes(page, width, height) ==
    LET stamp(name) == IF GetBox(page, name) # NoBox THEN Rect(width, height)
                       ELSE NoBox
    IN  [page EXCEPT !.mediabox = stamp("mediabox"), !.cropbox = stamp("cropbox"),
                     !.trimbox = stamp("trimbox"), !.bleedbox = stamp("bleedbox"),
                     !.artbox = stamp("artbox")]

Abs(x) == IF x < 0 THEN 0 - x ELSE x
WithinTolerance(w, h) == Abs(w - TARGET_W) <= TOL /\ Abs(h - TARGET_H) <= TOL

\* A scale that fills the target instead of fitting within it.
MergeScaleMax(w, h) == IF TARGET_W * h >= TARGET_H * w THEN <<TARGET_W, w>> ELSE <<TARGET_H, h>>

\* scale = min(TARGET_W / w, TARGET_H / h)
MergeScale(w, h) == IF TARGET_W * h <= TARGET_H * w THEN <<TARGET_W, w>> ELSE <<TARGET_H, h>>

\* The body of the loop over the front-matter pages.
MergedPrefacePage(page) ==
    LET w == BoxWidth(page.mediabox)
        h == BoxHeight(page.mediabox)
    IN  IF WithinTolerance(w, h)
        THEN _set_all_boxes(page, TARGET_W, TARGET_H)
        ELSE LET scale == MergeScale(w, h)
                 \* new_w = w * scale, dx = (TARGET_W - new_w) / 2
                 dx == <<TARGET_W * scale[2] - w * scale[1], 2 * scale[2]>>
                 dy == <<TARGET_H * scale[2] - h * scale[1], 2 * scale[2]>>
                 sized == _set_all_boxes(page, w, h)
                 moved == [sized EXCEPT !.transformed = TRUE,
                                        !.ctm = [s |-> scale, dx |-> dx, dy |-> dy]]
             IN  _set_all_boxes(moved, TARGET_W, TARGET_H)

\* Front-matter pages as they may arrive.
FrontKinds ==
    { Page("front", Rect(TARGET_W, TARGET_H), NoBox, NoBox, NoBox, NoBox),
      Page("front", <<10, 10, TARGET_W + 9, TARGET_H + 11>>, <<15, 15, 600, 600>>,
           NoBox, NoBox, <<20, 20, 500, 500>>),
      Page("front", Rect(2 * TARGET_W, TARGET_H), NoBox, NoBox, NoBox, NoBox),
      Page("front", Rect(612, 792), NoBox, <<9, 9, 603, 783>>, NoBox, NoBox),
      Page("front", Rect(300, 315), NoBox, NoBox, <<0, 0, 300, 315>>, NoBox) }
\* Body pages, as the page template wrote them.
BodyKinds == { Page("body", Rect(PageWidthPt, PageHeightPt), NoBox, NoBox, NoBox, NoBox) }

\* Pages of one document, numbered: the id becomes <<source, position>>.
Numbered(doc) == [n \in 1..Len(doc) |-> [doc[n] EXCEPT !.id = <<doc[n].id, n>>]]

MergeInit ==
    /\ preface_exists \in BOOLEAN
    /\ inner_exists \in BOOLEAN
    /\ preface_pages \in {Numbered(d) : d \in SeqsUpTo(FrontKinds, 0, MaxFront)}
    /\ inner_pages \in {Numbered(d) : d \in SeqsUpTo(BodyKinds, 0, MaxBody)}
    /\ merge_pc = "check"
    /\ merge_i = 0
    /\ writer_pages = <<>>
    /\ final_doc = <<>>

MergeIdle ==
    /\ preface_exists = FALSE /\ inner_exists = FALSE
    /\ preface_pages = <<>> /\ inner_pages = <<>>
    /\ merge_pc = "idle" /\ merge_i = 0 /\ writer_pages = <<>> /\ final_doc = <<>>

mergeInputs == <<preface_exists, inner_exists, preface_pages, inner_pages>>
notMergeVars == <<buildVars, fitVars, imgVars, runVars>>

\* A check that looks for the front-matter document only.
MergeRaisesPrefaceOnly(preface_there, inner_there) == ~preface_there

\* The two os.path.exists checks: FileNotFoundError if either is missing.
MergeRaises(preface_there, inner_there) == ~preface_there \/ ~inner_there

MergeCheck ==
    /\ merge_pc = "check"
    /\ merge_pc' = IF MergeRaises(preface_exists, inner_exists) THEN "raised" ELSE "preface"
    /\ UNCHANGED <<mergeInputs, merge_i, writer_pages, final_doc>>
    /\ UNCHANGED notMergeVars

MergePrefacePage ==
    /\ merge_pc = "preface"
    /\ merge_i < Len(preface_pages)
    /\ writer_pages' = Append(writer_pages, MergedPrefacePage(preface_pages[merge_i + 1]))
    /\ merge_i' = merge_i + 1
    /\ UNCHANGED <<mergeInputs, merge_pc, final_doc>>
    /\ UNCHANGED notMergeVars

MergePrefaceDone ==
    /\ merge_pc = "preface"
    /\ merge_i = Len(preface_pages)
    /\ merge_pc' = "inner"
    /\ merge_i' = 0
    /\ UNCHANGED <<mergeInputs, writer_pages, final_doc>>
    /\ UNCHANGED notMergeVars

MergeInnerPage ==
    /\ merge_pc = "inner"
    /\ merge_i < Len(inner_pages)
    /\ writer_pages' = Append(writer_pages,
                              _set_all_boxes(inner_pages[merge_i + 1], TARGET_W, TARGET_H))
    /\ merge_i' = merge_i + 1
    /\ UNCHANGED <<mergeInputs, merge_pc, final_doc>>
    /\ UNCHANGED notMergeVars

\* writer.write(f_out)
MergeWrite ==
    /\ merge_pc = "inner"
    /\ merge_i = Len(inner_pages)
    /\ final_doc' = writer_pages
    /\ merge_pc' = "written"
    /\ UNCHANGED <<mergeInputs, merge_i, writer_pages>>
    /\ UNCHANGED notMergeVars

Ids(doc) == [n \in 1..Len(doc) |-> doc[n].id]

\* C7: the written document is the front-matter pages in order, then the body
\* pages in order, nothing dropped, duplicated or reordered, and each page's
\* media, crop, trim, bleed and art box is the rectangle (0,0)-(targetW,targetH).
C7_MergedDocument ==
    merge_pc = "written" =>
        /\ Len(final_doc) = Len(preface_pages) + Len(inner_pages)
        /\ Ids(final_doc) = Ids(preface_pages) \o Ids(inner_pages)
        /\ \A n \in 1..Len(final_doc) :
              /\ final_doc[n].mediabox = <<0, 0, PageWidthPt, PageHeightPt>>
              /\ \A name \in BoxNames :
                    GetBox(final_doc[n], name) = <<0, 0, PageWidthPt, PageHeightPt>>

\* A written document with a transformed and an untransformed front page that
\* stated other boxes, followed by body pages.
C7_Witness ==
    /\ merge_pc = "written"
    /\ Len(preface_pages) >= 2 /\ Len(inner_pages) >= 1
    /\ \E n \in 1..Len(preface_pages) :
          final_doc[n].transformed /\ preface_pages[n].trimbox # NoBox
    /\ \E n \in 1..Len(preface_pages) :
          ~final_doc[n].transformed /\ preface_pages[n].artbox # NoBox

\* The front-matter pages of size (2 * targetW, targetH) merged so far.
DoubleWidthMerged ==
    {n \in 1..Min(Len(writer_pages), Len(preface_pages)) :
        /\ BoxWidth(preface_pages[n].mediabox) = 2 * PageWidthPt
        /\ BoxHeight(preface_pages[n].mediabox) = PageHeightPt}

\* C8 as stated: such a page is outside the tolerance, is transformed with
\* uniform scale 0.5 and centered with zero vertical offset, and its boxes
\* are exactly (targetW, targetH).
C8_ZeroVerticalOffset ==
    \A n \in DoubleWidthMerged :
        /\ writer_pages[n].transformed
        /\ RatEq(writer_pages[n].ctm.s, <<1, 2>>)
        /\ RatEq(writer_pages[n].ctm.dy, <<0, 1>>)
        /\ \A name \in BoxNames :
              GetBox(writer_pages[n], name) = <<0, 0, PageWidthPt, PageHeightPt>>

\* C8 amended: such a page is outside the tolerance, is transformed with
\* uniform scale 0.5, zero horizontal offset dx = 0 and vertical offset
\* dy = targetH / 4, and its boxes are exactly (targetW, targetH).
C8_QuarterHeightOffset ==
    \A n \in DoubleWidthMerged :
        /\ writer_pages[n].transformed
        /\ RatEq(writer_pages[n].ctm.s, <<1, 2>>)
        /\ RatEq(writer_pages[n].ctm.dx, <<0, 1>>)
        /\ RatEq(writer_pages[n].ctm.dy, <<PageHeightPt, 4>>)
        /\ \A name \in BoxNames :
              GetBox(writer_pages[n], name) = <<0, 0, PageWidthPt, PageHeightPt>>

C8_Witness == merge_pc = "written" /\ DoubleWidthMerged # {}

\* ------------------------------------------ runs: app.index and main
Runs == 1..NumRuns
Cwds == {"cwd1", "cwd2"}
OutputNames == {"children_book.pdf", "other.pdf"}
InnerName == "_inner_book_tmp.pdf"

\* The directory of a web run: RUNS_DIR / str(uuid.uuid4()), one per request.
RunDir(r) == <<"ui_runs", r>>
\* Where run r keeps its files.
WorkDir(r) == IF run_kind[r] = "web" THEN RunDir(r) ELSE <<run_cwd[r]>>

FileAt(dir, name, r) == [dir |-> dir, name |-> name, by |-> r]
Exists(dir, name) == \E f \in fs_files : f.dir = dir /\ f.name = name
\* Writing a file replaces what the path held.
Written(files, dir, name, r) ==
    {f \in files : ~(f.dir = dir /\ f.name = name)} \cup {FileAt(dir, name, r)}
Removed(files, dir, name) == {f \in files : ~(f.dir = dir /\ f.name = name)}

\* A manuscript file: a JSON object with a list of strings under "pages",
\* text that is not JSON, an object without "pages", or an object whose
\* "pages" holds something that is not a string.
ManuscriptKinds == {"ok", "bad_json", "no_pages", "page_not_text"}

\* What each run is given as front matter: an uploaded or named document,
\* the default rfh.pdf, or a path where there is no file.
PrefaceKinds == {"uploaded", "default", "absent"}

\* build_inner_book up to doc.build: json.load raises on text that is not
\* JSON, data["pages"] on a missing key, page_text.split on a page that is
\* not a string; the body document is written by doc.build, after all three.
BuildRaises(ms) ==
    CASE ms = "bad_json" -> TRUE
      [] ms = "no_pages" -> TRUE
      [] ms = "page_not_text" -> TRUE
      [] OTHER -> FALSE

RunsInit ==
    /\ run_kind \in [Runs -> {"web", "cli"}]
    /\ run_cwd \in [Runs -> Cwds]
    /\ run_out \in [Runs -> OutputNames]
    /\ run_ms \in [Runs -> ManuscriptKinds]
    /\ run_preface \in [Runs -> PrefaceKinds]
    /\ run_pc = [r \in Runs |-> "start"]
    /\ run_made = [r \in Runs |-> {}]
    /\ fs_dirs = {}
    /\ fs_files = {}

RunsIdle ==
    /\ run_kind = <<>> /\ run_cwd = <<>> /\ run_out = <<>> /\ run_pc = <<>>
    /\ run_made = <<>> /\ fs_dirs = {} /\ fs_files = {}
    /\ run_ms = <<>> /\ run_preface = <<>>

runInputs == <<run_kind, run_cwd, run_out, run_ms, run_preface>>
notRunVars == <<buildVars, fitVars, imgVars, mergeVars>>

\* run_dir.mkdir(parents=True, exist_ok=True)
WebMkdir(r) ==
    /\ run_kind[r] = "web" /\ run_pc[r] = "start"
    /\ fs_dirs' = fs_dirs \cup {RunDir(r)}
    /\ run_made' = [run_made EXCEPT ![r] = @ \cup {<<RunDir(r), "">>}]
    /\ run_pc' = [run_pc EXCEPT ![r] = "purge"]
    /\ UNCHANGED <<runInputs, fs_files>>
    /\ UNCHANGED notRunVars

\* "delete all other runs": rmtree of every directory of RUNS_DIR but its own.
WebPurge(r) ==
    /\ run_kind[r] = "web" /\ run_pc[r] = "purge"
    /\ fs_dirs' = fs_dirs \cap {RunDir(r)}
    /\ fs_files' = {f \in fs_files : f.dir = RunDir(r) \/ f.dir \notin fs_dirs}
    /\ run_pc' = [run_pc EXCEPT ![r] = "save"]
    /\ UNCHANGED <<runInputs, run_made>>
    /\ UNCHANGED notRunVars

\* What the request has written when it reaches build_inner_book: the images
\* directory, manuscript.json, and preface.pdf if a front matter was uploaded.
Uploads(r) ==
    {"images", "manuscript.json"} \cup
        (IF run_preface[r] = "uploaded" THEN {"preface.pdf"} ELSE {})

RECURSIVE WrittenAll(_, _, _, _)
WrittenAll(files, dir, names, r) ==
    IF names = {} THEN files
    ELSE LET n == CHOOSE x \in names : TRUE
         IN WrittenAll(Written(files, dir, n, r), dir, names \ {n}, r)

\* images_dir.mkdir (a missing run directory raises); the manuscript is
\* parsed, and text that is not JSON is flashed and the request returns; the
\* parsed data is written to manuscript.json; an uploaded preface is saved,
\* and without one and without rfh.pdf the request returns; images are saved.
WebSave(r) ==
    /\ run_kind[r] = "web" /\ run_pc[r] = "save"
    /\ IF RunDir(r) \notin fs_dirs
       THEN /\ run_pc' = [run_pc EXCEPT ![r] = "crashed"]
            /\ UNCHANGED <<fs_files, run_made>>
       ELSE IF run_ms[r] = "bad_json"
       THEN /\ fs_files' = Written(fs_files, RunDir(r), "images", r)
            /\ run_made' = [run_made EXCEPT ![r] = @ \cup {<<RunDir(r), "images">>}]
            /\ run_pc' = [run_pc EXCEPT ![r] = "rejected"]
       ELSE IF run_preface[r] = "absent"
       THEN /\ fs_files' = WrittenAll(fs_files, RunDir(r), {"images", "manuscript.json"}, r)
            /\ run_made' = [run_made EXCEPT ![r] =
                               @ \cup {<<RunDir(r), "images">>, <<RunDir(r), "manuscript.json">>}]
            /\ run_pc' = [run_pc EXCEPT ![r] = "rejected"]
       ELSE /\ fs_files' = WrittenAll(fs_files, RunDir(r), Uploads(r), r)
            /\ run_made' = [run_made EXCEPT ![r] =
                               @ \cup {<<RunDir(r), n>> : n \in Uploads(r)}]
            /\ run_pc' = [run_pc EXCEPT ![r] = "build"]
    /\ UNCHANGED <<runInputs, fs_dirs>>
    /\ UNCHANGED notRunVars

\* build_inner_book reads the manuscript and, last, writes the intermediate
\* body; the except clause of index turns a failure into a flash message.
WebBuild(r) ==
    /\ run_kind[r] = "web" /\ run_pc[r] = "build"
    /\ IF Exists(RunDir(r), "manuscript.json") /\ ~BuildRaises(run_ms[r])
       THEN /\ fs_files' = Written(fs_files, RunDir(r), InnerName, r)
            /\ run_made' = [run_made EXCEPT ![r] = @ \cup {<<RunDir(r), InnerName>>}]
            /\ run_pc' = [run_pc EXCEPT ![r] = "merge"]
       ELSE /\ run_pc' = [run_pc EXCEPT ![r] = "error"]
            /\ UNCHANGED <<fs_files, run_made>>
    /\ UNCHANGED <<runInputs, fs_dirs>>
    /\ UNCHANGED notRunVars

\* Whether the front-matter document and the intermediate body of run r
\* are on disk at this moment.
PrefaceThere(r) ==
    CASE run_preface[r] = "absent" -> FALSE
      [] run_preface[r] = "uploaded" /\ run_kind[r] = "web" -> Exists(RunDir(r), "preface.pdf")
      [] OTHER -> TRUE
InnerThere(r) == Exists(WorkDir(r), InnerName)

\* merge_preface_and_book checks both documents, reads them and writes the
\* final one; the except clause of index turns a failure into a flash message.
WebMerge(r) ==
    /\ run_kind[r] = "web" /\ run_pc[r] = "merge"
    /\ IF MergeRaises(PrefaceThere(r), InnerThere(r))
       THEN /\ run_pc' = [run_pc EXCEPT ![r] = "error"]
            /\ UNCHANGED <<fs_files, run_made>>
       ELSE /\ fs_files' = Written(fs_files, RunDir(r), run_out[r], r)
            /\ run_made' = [run_made EXCEPT ![r] = @ \cup {<<RunDir(r), run_out[r]>>}]
            /\ run_pc' = [run_pc EXCEPT ![r] = "serve"]
    /\ UNCHANGED <<runInputs, fs_dirs>>
    /\ UNCHANGED notRunVars

\* preview and download_file: the final document is sent if it is there.
WebServe(r) ==
    /\ run_kind[r] = "web" /\ run_pc[r] = "serve"
    /\ run_pc' = [run_pc EXCEPT ![r] =
                     IF Exists(RunDir(r), run_out[r]) THEN "served" ELSE "not_found"]
    /\ UNCHANGED <<runInputs, run_made, fs_dirs, fs_files>>
    /\ UNCHANGED notRunVars

\* main: build_inner_book writes "_inner_book_tmp.pdf" in the working
\* directory; a failure propagates out of main.
CliBuild(r) ==
    /\ run_kind[r] = "cli" /\ run_pc[r] = "start"
    /\ IF BuildRaises(run_ms[r])
       THEN /\ run_pc' = [run_pc EXCEPT ![r] = "error"]
            /\ UNCHANGED <<fs_files, run_made>>
       ELSE /\ fs_files' = Written(fs_files, <<run_cwd[r]>>, InnerName, r)
            /\ run_made' = [run_made EXCEPT ![r] = @ \cup {<<<<run_cwd[r]>>, InnerName>>}]
            /\ run_pc' = [run_pc EXCEPT ![r] = "merge"]
    /\ UNCHANGED <<runInputs, fs_dirs>>
    /\ UNCHANGED notRunVars

\* main: merge_preface_and_book reads it and writes args.output; a failure
\* propagates out of main, before os.remove.
CliMerge(r) ==
    /\ run_kind[r] = "cli" /\ run_pc[r] = "merge"
    /\ IF MergeRaises(PrefaceThere(r), InnerThere(r))
       THEN /\ run_pc' = [run_pc EXCEPT ![r] = "error"]
            /\ UNCHANGED <<fs_files, run_made>>
       ELSE /\ fs_files' = Written(fs_files, <<run_cwd[r]>>, run_out[r], r)
            /\ run_made' = [run_made EXCEPT ![r] = @ \cup {<<<<run_cwd[r]>>, run_out[r]>>}]
            /\ run_pc' = [run_pc EXCEPT ![r] = "remove"]
    /\ UNCHANGED <<runInputs, fs_dirs>>
    /\ UNCHANGED notRunVars

\* main: os.remove(inner_book_path), OSError ignored.
CliRemove(r) ==
    /\ run_kind[r] = "cli" /\ run_pc[r] = "remove"
    /\ fs_files' = Removed(fs_files, <<run_cwd[r]>>, InnerName)
    /\ run_pc' = [run_pc EXCEPT ![r] = "done"]
    /\ UNCHANGED <<runInputs, run_made, fs_dirs>>
    /\ UNCHANGED notRunVars

\* A run between its start and the moment its final document is written
\* (command line) or served (web).
RunActive(r) == run_pc[r] \in {"purge", "save", "build", "merge", "serve"}

\* C10: runs share no resource: each has its own intermediate and output
\* path, and while a run is active every directory and file it made is still
\* there and still its own, whatever the other run does.
C10_RunsIsolated ==
    /\ \A r1, r2 \in Runs :
          r1 # r2 => /\ <<WorkDir(r1), InnerName>> # <<WorkDir(r2), InnerName>>
                     /\ <<WorkDir(r1), run_out[r1]>> # <<WorkDir(r2), run_out[r2]>>
    /\ \A r \in Runs :
          RunActive(r) =>
              \A m \in run_made[r] :
                  IF m[2] = "" THEN m[1] \in fs_dirs
                  ELSE FileAt(m[1], m[2], r) \in fs_files

\* A manuscript that cannot be read as the manuscript format.
RunMalformed(r) == run_ms[r] \in {"bad_json", "no_pages", "page_not_text"}
\* The run is over because a failure reached its caller.
RunFailed(r) == run_pc[r] \in {"error", "rejected"}
\* The step of run r in which build_inner_book, or merge_preface_and_book, runs.
BuildStepOf(r) ==
    /\ run_pc[r] = (IF run_kind[r] = "web" THEN "build" ELSE "start")
    /\ run_pc'[r] # run_pc[r]
MergeStepOf(r) == run_pc[r] = "merge" /\ run_pc'[r] # "merge"
\* The documents run r has put on disk under the given name.
DocsBy(r, name) == {f \in fs_files : f.by = r /\ f.name = name}

C11_NothingWritten ==
    \A r \in Runs :
        /\ RunMalformed(r) =>
              /\ DocsBy(r, InnerName) = {} /\ DocsBy(r, run_out[r]) = {}
              /\ run_pc[r] \notin {"merge", "serve", "served", "not_found", "remove", "done"}
        /\ RunFailed(r) =>
              /\ DocsBy(r, run_out[r]) = {}
              /\ <<WorkDir(r), run_out[r]>> \notin run_made[r]

C11_FailsBeforeWriting ==
    \A r \in Runs :
        /\ BuildStepOf(r) /\ RunMalformed(r) =>
              /\ run_pc'[r] = "error"
              /\ fs_files' = fs_files /\ fs_dirs' = fs_dirs
        /\ MergeStepOf(r) /\ (~PrefaceThere(r) \/ ~InnerThere(r)) =>
              /\ run_pc'[r] = "error"
              /\ fs_files' = fs_files /\ fs_dirs' = fs_dirs
        /\ RunFailed(r) => run_pc'[r] = run_pc[r] /\ run_made'[r] = run_made[r]

Init == BuildInit /\ FitIdle /\ ImgIdle /\ MergeIdle /\ RunsIdle
Next == PlanStep \/ TitleStep \/ AssembleStep \/ BuildStep \/ EndBuild
Spec == Init /\ [][Next]_vars

\* One call of create_fitting_paragraph.
InitFit == BuildIdle /\ FitInit /\ ImgIdle /\ MergeIdle /\ RunsIdle
SpecFit == InitFit /\ [][FitCall]_vars

\* One call of load_image_paths.
InitImages == BuildIdle /\ FitIdle /\ ImgInit /\ MergeIdle /\ RunsIdle
SpecImages == InitImages /\ [][LoadImages]_vars

\* One call of merge_preface_and_book.
InitMerge == BuildIdle /\ FitIdle /\ ImgIdle /\ MergeInit /\ RunsIdle
MergeNext ==
    MergeCheck \/ MergePrefacePage \/ MergePrefaceDone \/ MergeInnerPage \/ MergeWrite
SpecMerge == InitMerge /\ [][MergeNext]_vars

\* NumRuns runs, web requests or command-line runs, interleaved.
InitRuns == BuildIdle /\ FitIdle /\ ImgIdle /\ MergeIdle /\ RunsInit
RunsNext ==
    \E r \in Runs :
        \/ WebMkdir(r) \/ WebPurge(r) \/ WebSave(r) \/ WebBuild(r) \/ WebMerge(r)
        \/ WebServe(r) \/ CliBuild(r) \/ CliMerge(r) \/ CliRemove(r)
SpecRuns == InitRuns /\ [][RunsNext]_vars

====
